---------------------------- MODULE Spec2Model ----------------------------
(***************************************************************************)
(* Model of scripts/test2_cylindrical_mask.py: the HandSegmentation node.  *)
(*                                                                         *)
(* The node owns four subscriber callbacks (image_callback, store_pcl,     *)
(* range_image_callback, metadata_callback).  rospy runs the callbacks of  *)
(* different topics on different threads, so the callbacks interleave at   *)
(* every read and write of an attribute of the node.                       *)
(*                                                                         *)
(* Numbers.  A float is a record: Fin(n), NaN or Inf(s).  Pixel            *)
(* coordinates of keypoints are kept in units of 1/CoordDen pixel,         *)
(* confidences in tenths, and the directions of a lookup table are integer *)
(* vectors (a common scale factor is left out), so that all arithmetic is  *)
(* integer arithmetic.  Rounding of the floating-point operations is not   *)
(* modelled.                                                               *)
(***************************************************************************)
EXTENDS Integers, Sequences, FiniteSets, TLC

(***************************************************************************)
(* Bounds of the model.                                                    *)
(***************************************************************************)
\* Events delivered to the node, over all topics.
MaxEvents == 5
MaxPixels == 4
\* Pixel coordinates of keypoints are 0..MaxCoord: a segment over 2.5 pixels
\* is the shortest that draw_cylinder walks in steps longer than a pixel.
MaxCoord == 3
\* Keypoint coordinates are multiples of 1/CoordDen pixel.
CoordDen == 2

(***************************************************************************)
(* Program constants.                                                      *)
(***************************************************************************)
ConfThresholdTenths == 5
RangeScale == 4
Radius == 1
ShoulderIdx == 5
ElbowIdx == 7
WristIdx == 9
UInt16Mod == 65536

(***************************************************************************)
(* Python values.                                                          *)
(***************************************************************************)
None == [none |-> TRUE]

\* The tuple (None, None) of lines 141 and 144.
NonePair == [tuple |-> <<None, None>>]

Fin(n) == [k |-> "fin", v |-> n]
NaN == [k |-> "nan", v |-> 0]
Inf(s) == [k |-> "inf", v |-> s]

IsNaN(a) == a.k = "nan"
IsFinite(a) == a.k = "fin"

Sign(n) == IF n > 0 THEN 1 ELSE IF n < 0 THEN -1 ELSE 0

\* IEEE-754 product of two floats.
FMul(a, b) ==
    IF IsNaN(a) \/ IsNaN(b) THEN NaN
    ELSE IF a.k = "inf" \/ b.k = "inf"
         THEN IF Sign(a.v) * Sign(b.v) = 0 THEN NaN
              ELSE Inf(Sign(a.v) * Sign(b.v))
         ELSE Fin(a.v * b.v)

\* int(): truncation towards zero of a / b, b > 0.
TruncDiv(a, b) == IF a >= 0 THEN a \div b ELSE -((-a) \div b)

\* floor(sqrt(n)), n >= 0.
ISqrt(n) == CHOOSE k \in 0..n : k * k <= n /\ (k + 1) * (k + 1) > n

(***************************************************************************)
(* Arrays.  A 2-D array is [shape |-> <<rows, cols>>, dtype, data], data   *)
(* the elements in row-major order; (r, c) are 0-based.                    *)
(***************************************************************************)
Rows(a) == a.shape[1]
Cols(a) == a.shape[2]
Size(shape) == shape[1] * shape[2]
Idx(r, c, cols) == r * cols + c + 1
At(a, r, c) == a.data[Idx(r, c, Cols(a))]
RowOf(p, cols) == (p - 1) \div cols
ColOf(p, cols) == (p - 1) % cols

Array(shape, dtype, data) == [shape |-> shape, dtype |-> dtype, data |-> data]

\* Every shape of at most n pixels.
ShapesUpTo(n) == {s \in (1..n) \X (1..n) : Size(s) <= n}

\* Every array of a shape of `shapes` with elements of `elems`.
ArraysOf(shapes, dtype, elems) ==
    UNION {{Array(s, dtype, d) : d \in [1..Size(s) -> elems]} : s \in shapes}

\* np.zeros(image_shape, dtype=np.uint8), line 128.
Zeros(shape) == Array(shape, "uint8", [p \in 1..Size(shape) |-> 0])

(***************************************************************************)
(* An exception raised by a call.                                          *)
(***************************************************************************)
Raise == [raise |-> TRUE]

(***************************************************************************)
(* The sensor library (ouster.sdk.client).  The library is not part of the *)
(* repository; these operators state the contract the node relies on:      *)
(* SensorInfo holds the image format and the per-row pixel shift, XYZLut   *)
(* the per-pixel direction; destagger rolls every row by its shift; the    *)
(* lookup table multiplies each range sample by its pixel's direction, so  *)
(* that a not-a-number sample gives not-a-number coordinates.              *)
(***************************************************************************)
Calibs == {"axis", "skew"}

ShiftOf(calib, shape) ==
    [r \in 1..shape[1] |-> IF calib = "axis" THEN 0 ELSE r % shape[2]]

DirsOf(calib, shape) ==
    [p \in 1..Size(shape) |-> IF calib = "axis" THEN <<0, 0, 1>> ELSE <<1, 2, p>>]

\* client.SensorInfo(metadata_str), line 56; gen numbers the delivery.
SensorInfo(gen, shape, calib) ==
    [gen |-> gen, shape |-> shape, shift |-> ShiftOf(calib, shape),
     beams |-> DirsOf(calib, shape)]

\* client.XYZLut(self.sensor_info), line 57.
XYZLut(info) == [gen |-> info.gen, shape |-> info.shape, dirs |-> info.beams]

\* client.destagger(info, image, inverse=True), line 169.
Destagger(info, image) ==
    IF info = None \/ image = None \/ image.shape # info.shape THEN Raise
    ELSE Array(image.shape, image.dtype,
               [p \in 1..Size(image.shape) |->
                   LET r == RowOf(p, Cols(image))
                       c == ColOf(p, Cols(image))
                   IN  At(image, r, (c + info.shift[r + 1]) % Cols(image))])

\* self.xyzlut(roi_range_image).reshape(-1, 3), line 176.
\* The call raises when there is no table or the image has another shape.
XYZLutRaises(lut, roi) == lut = None \/ roi.shape # lut.shape

XYZLutCall(lut, roi) ==
    [p \in 1..Size(roi.shape) |->
        <<FMul(roi.data[p], Fin(lut.dirs[p][1])),
          FMul(roi.data[p], Fin(lut.dirs[p][2])),
          FMul(roi.data[p], Fin(lut.dirs[p][3]))>>]

(***************************************************************************)
(* numpy.                                                                  *)
(***************************************************************************)
\* The broadcast of two extents; 0 when they do not broadcast.
BDim(a, b) == IF a = b THEN a ELSE IF a = 1 THEN b ELSE IF b = 1 THEN a ELSE 0

\* np.where with 0 in the place of np.nan.
WhereFillZero(mask, image) ==
    LET rows == BDim(Rows(mask), Rows(image))
        cols == BDim(Cols(mask), Cols(image))
    IN  IF rows = 0 \/ cols = 0 THEN Raise
        ELSE Array(<<rows, cols>>, "float64",
                   [p \in 1..(rows * cols) |->
                       LET r == RowOf(p, cols)
                           c == ColOf(p, cols)
                           mr == IF Rows(mask) = 1 THEN 0 ELSE r
                           mc == IF Cols(mask) = 1 THEN 0 ELSE c
                           ir == IF Rows(image) = 1 THEN 0 ELSE r
                           ic == IF Cols(image) = 1 THEN 0 ELSE c
                       IN  IF At(mask, mr, mc) # 0 THEN At(image, ir, ic) ELSE Fin(0)])

\* np.where(mask.astype(bool), image, np.nan), lines 172-173.
Where(mask, image) ==
    LET rows == BDim(Rows(mask), Rows(image))
        cols == BDim(Cols(mask), Cols(image))
    IN  IF rows = 0 \/ cols = 0 THEN Raise
        ELSE Array(<<rows, cols>>, "float64",
                   [p \in 1..(rows * cols) |->
                       LET r == RowOf(p, cols)
                           c == ColOf(p, cols)
                           mr == IF Rows(mask) = 1 THEN 0 ELSE r
                           mc == IF Cols(mask) = 1 THEN 0 ELSE c
                           ir == IF Rows(image) = 1 THEN 0 ELSE r
                           ic == IF Cols(image) = 1 THEN 0 ELSE c
                       IN  IF At(mask, mr, mc) # 0 THEN At(image, ir, ic) ELSE NaN])

\* np.isnan(point).any(), line 179.
AnyNaN(pt) == IsNaN(pt[1]) \/ IsNaN(pt[2]) \/ IsNaN(pt[3])

\* xyz_points[~np.isnan(xyz_points).any(axis=1)], line 179.
ValidPoints(points) == SelectSeq(points, LAMBDA pt : ~AnyNaN(pt))

\* range_image * 4, line 70: an integer array keeps its width.
ScaleRange(image) ==
    Array(image.shape, image.dtype,
          [p \in 1..Size(image.shape) |->
              IF image.dtype = "uint16"
              THEN Fin((image.data[p].v * RangeScale) % UInt16Mod)
              ELSE FMul(image.data[p], Fin(RangeScale))])

(***************************************************************************)
(* Mask building.  A keypoint is <<x, y, confidence>>, x and y in units of *)
(* 1/CoordDen pixel and the confidence in tenths; keypoints is the array   *)
(* of the detected skeleton, row i at keypoints[i + 1].                    *)
(***************************************************************************)
\* The pixels of cv2.circle(mask, (x, y), radius, 1, -1), line 153: a filled
\* disk, clipped to the image; x is the column and y the row.
InDisk(r, c, x, y, radius) ==
    (c - x) * (c - x) + (r - y) * (r - y) <= radius * radius

\* line_length = int(np.hypot(x2 - x1, y2 - y1)), line 148.
LineLength(x1, y1, x2, y2) ==
    ISqrt((x2 - x1) * (x2 - x1) + (y2 - y1) * (y2 - y1)) \div CoordDen

\* The i-th sampled centre, lines 150-152: t = i / line_length,
\* int(x1 * (1 - t) + x2 * t).
Centre(x1, y1, x2, y2, i) ==
    LET n == LineLength(x1, y1, x2, y2)
    IN  <<TruncDiv(x1 * (n - i) + x2 * i, CoordDen * n),
          TruncDiv(y1 * (n - i) + y2 * i, CoordDen * n)>>

\* The centres draw_cylinder stamps, lines 149-153: i in range(line_length).
Centres(x1, y1, x2, y2) ==
    {Centre(x1, y1, x2, y2, i) : i \in 0..(LineLength(x1, y1, x2, y2) - 1)}

\* draw_cylinder, lines 146-153.
DrawCylinder(mask, x1, y1, x2, y2, radius) ==
    Array(mask.shape, mask.dtype,
          [p \in 1..Size(mask.shape) |->
              IF \E ctr \in Centres(x1, y1, x2, y2) :
                    InDisk(RowOf(p, Cols(mask)), ColOf(p, Cols(mask)),
                           ctr[1], ctr[2], radius)
              THEN 1 ELSE mask.data[p]])

\* np.all(confidences > 0.5), line 127.
HighConfidence(kp) == kp[3] > ConfThresholdTenths

\* get_hand_region_mask, lines 118-144.  Indexing a row the array does not
\* have raises IndexError, which the handler of line 142 turns into the
\* return value of line 144.  The logging and the display of the mask
\* (lines 125, 136, 137) change no state and are left out.
GetHandRegionMask(keypoints, image_shape) ==
    IF Len(keypoints) <= WristIdx THEN NonePair
    ELSE LET shoulder == keypoints[ShoulderIdx + 1]
             elbow == keypoints[ElbowIdx + 1]
             wrist == keypoints[WristIdx + 1]
         IN  IF HighConfidence(shoulder) /\ HighConfidence(elbow)
                  /\ HighConfidence(wrist)
             THEN DrawCylinder(
                      DrawCylinder(Zeros(image_shape), shoulder[1], shoulder[2],
                                   elbow[1], elbow[2], Radius),
                      elbow[1], elbow[2], wrist[1], wrist[2], Radius)
             ELSE NonePair

\* A value get_hand_region_mask returns is a mask when it is an array.
IsMask(m) == m # None /\ m # NonePair /\ m # Raise

(***************************************************************************)
(* The node.                                                               *)
(***************************************************************************)
VARIABLES
    \* attributes of HandSegmentation, lines 31-49
    latest_pcl, latest_range_image, sensor_info, metadata, xyzlut,
    metadata_received, log_counter,
    \* what hand_pub has published, in order
    published,
    \* image_callback and the calls it makes: position and local variables
    ipc, frame_shape, keypoints, mask, range_image, pcl_msg,
    roi_range_image, valid_points,
    \* metadata_callback: position
    mpc,
    \* events delivered so far, per topic
    nPose, nPcl, nRange, nMeta,
    \* history: how the last pose cycle ended, what the running one has read,
    \* whether a handler has raised so far, and the image of the last
    \* /ouster/range_image message that was converted, as it was delivered
    outcome, cyc, faulted, delivered

attrs == <<latest_pcl, latest_range_image, sensor_info, metadata, xyzlut,
           metadata_received, log_counter>>
calibration == <<sensor_info, metadata, xyzlut, metadata_received>>
locals == <<frame_shape, keypoints, mask, range_image, pcl_msg,
            roi_range_image, valid_points>>
counters == <<nPose, nPcl, nRange, nMeta>>
\* Another event can be delivered.
MoreEvents == nPose + nPcl + nRange + nMeta < MaxEvents
history == <<outcome, cyc, faulted, delivered>>
vars == <<attrs, published, ipc, locals, mpc, counters, history>>

\* What a pose cycle has read: the cached values line 108 tested, whether
\* calibration and lookup table were both set when line 163 tested them, the
\* calibration line 169 used and the lookup table line 176 used; whether
\* a handler had raised before the cycle began; and the delivered image
\* that the range image loaded at line 109 was made from.
NoCycle == [chk_range |-> None, chk_pcl |-> None, ready |-> FALSE,
            info |-> None, lut |-> None, after_fault |-> FALSE,
            raw |-> None]

\* __init__, lines 18-49.
Init ==
    /\ latest_pcl = None
    /\ latest_range_image = None
    /\ sensor_info = None
    /\ metadata = None
    /\ xyzlut = None
    /\ metadata_received = FALSE
    /\ log_counter = 0
    /\ published = <<>>
    /\ ipc = "idle"
    /\ frame_shape = None
    /\ keypoints = None
    /\ mask = None
    /\ range_image = None
    /\ pcl_msg = None
    /\ roi_range_image = None
    /\ valid_points = None
    /\ mpc = "idle"
    /\ nPose = 0
    /\ nPcl = 0
    /\ nRange = 0
    /\ nMeta = 0
    /\ outcome = "none"
    /\ cyc = NoCycle
    /\ faulted = FALSE
    /\ delivered = None

(***************************************************************************)
(* Messages.                                                               *)
(***************************************************************************)
\* The keypoint array of a skeleton of n landmarks with the given arm.
KeypointArray(n, shoulder, elbow, wrist) ==
    [i \in 1..n |-> IF i = ShoulderIdx + 1 THEN shoulder
                    ELSE IF i = ElbowIdx + 1 THEN elbow
                    ELSE IF i = WristIdx + 1 THEN wrist
                    ELSE <<0, 0, 0>>]

\* The number of rows of a keypoint array: none, too few for row 9, all.
SkeletonRows == {0, 6, 17}

\* The arms the pipeline is driven with: a confident arm, a confident arm
\* of length zero, and an arm with the elbow at the threshold.
SpecArms ==
    {<<(<<0, 0, 9>>), (<<CoordDen, 0, 9>>), (<<CoordDen, 0, 6>>)>>,
     <<(<<0, 0, 9>>), (<<0, 0, 9>>), (<<0, 0, 9>>)>>,
     <<(<<0, 0, 9>>), (<<CoordDen, 0, 5>>), (<<CoordDen, 0, 9>>)>>}

SpecKeypoints ==
    {KeypointArray(n, a[1], a[2], a[3]) :
        n \in {m \in SkeletonRows : m > WristIdx}, a \in SpecArms}
    \cup {KeypointArray(n, <<0, 0, 9>>, <<0, 0, 9>>, <<0, 0, 9>>) :
            n \in {m \in SkeletonRows : m <= WristIdx}}

SpecShapes == {<<2, 2>>, <<1, 2>>}

PoseMsgs ==
    {[kind |-> "bad_image"], [kind |-> "no_result"]}
    \cup {[kind |-> "pose", shape |-> s, keypoints |-> k] :
            s \in SpecShapes, k \in SpecKeypoints}

SpecRangeImages ==
    {Array(<<2, 2>>, "float32", <<Fin(1), Fin(2), NaN, Inf(1)>>),
     Array(<<2, 2>>, "uint16", <<Fin(1), Fin(2), Fin(3), Fin(16384)>>),
     Array(<<1, 2>>, "float32", <<Fin(1), Fin(2)>>)}

RangeMsgs == {[kind |-> "bad_image"]}
             \cup {[kind |-> "image", image |-> a] : a \in SpecRangeImages}

MetaMsgs ==
    {[kind |-> "bad_json", shape |-> <<1, 2>>, calib |-> "axis"],
     [kind |-> "bad_info", shape |-> <<1, 2>>, calib |-> "axis"],
     [kind |-> "bad_lut", shape |-> <<1, 2>>, calib |-> "axis"]}
    \cup {[kind |-> "ok", shape |-> s, calib |-> c] : s \in SpecShapes, c \in Calibs}

\* The n-th message of /ouster/points: its header and its point data.
PclMsg(n) ==
    [header |-> [stamp |-> n, frame_id |-> "os_lidar"], data |-> n]

(***************************************************************************)
(* store_pcl, lines 63-65.                                                 *)
(***************************************************************************)
\* store_pcl publishing a cloud for the message it stores.
StorePclAndPublish ==
    /\ MoreEvents
    /\ nPcl' = nPcl + 1
    /\ latest_pcl' = PclMsg(nPcl + 1)
    /\ published' = Append(published, [stamp |-> nPcl + 1,
                                       frame_id |-> "os_sensor",
                                       points |-> <<>>])
    /\ UNCHANGED <<latest_range_image, calibration, log_counter, ipc, locals,
                   mpc, nPose, nRange, nMeta, history>>

store_pcl ==
    /\ MoreEvents
    /\ nPcl' = nPcl + 1
    /\ latest_pcl' = PclMsg(nPcl + 1)
    /\ UNCHANGED <<latest_range_image, calibration, log_counter, published,
                   ipc, locals, mpc, nPose, nRange, nMeta, history>>

(***************************************************************************)
(* range_image_callback, lines 67-76.  imgmsg_to_cv2 raises on a message   *)
(* it cannot convert; the handler of line 75 logs that.                    *)
(***************************************************************************)
range_image_callback ==
    /\ MoreEvents
    /\ nRange' = nRange + 1
    /\ \E msg \in RangeMsgs :
          IF msg.kind = "bad_image"
          THEN /\ faulted' = TRUE
               /\ UNCHANGED <<latest_range_image, log_counter, delivered>>
          ELSE /\ latest_range_image' = ScaleRange(msg.image)
               /\ log_counter' = log_counter + 1
               /\ delivered' = msg.image
               /\ UNCHANGED faulted
    /\ UNCHANGED <<latest_pcl, calibration, published, ipc, locals, mpc,
                   nPose, nPcl, nMeta, outcome, cyc>>

(***************************************************************************)
(* metadata_callback, lines 51-61, one step per statement of the try       *)
(* block.  A statement that raises ends the callback in the handler of     *)
(* line 60, with the assignments made so far kept.                         *)
(***************************************************************************)
\* line 54: self.metadata = json.loads(msg.data)  (and line 55)
MetaLoads ==
    /\ mpc = "idle"
    /\ MoreEvents
    /\ nMeta' = nMeta + 1
    /\ \E msg \in MetaMsgs :
          IF msg.kind = "bad_json"
          THEN UNCHANGED <<metadata, mpc>>
          ELSE /\ metadata' = [gen |-> nMeta + 1, kind |-> msg.kind,
                               shape |-> msg.shape, calib |-> msg.calib]
               /\ mpc' = "sensor_info"
    /\ UNCHANGED <<latest_pcl, latest_range_image, sensor_info, xyzlut,
                   metadata_received, log_counter, published, ipc, locals,
                   nPose, nPcl, nRange, history>>

\* Line 56 with a handler that clears the calibration when the call raises.
MetaSensorInfoClears ==
    /\ mpc = "sensor_info"
    /\ IF metadata.kind = "bad_info"
       THEN /\ mpc' = "idle"
            /\ sensor_info' = None
       ELSE /\ sensor_info' = SensorInfo(metadata.gen, metadata.shape, metadata.calib)
            /\ mpc' = "xyzlut"
    /\ UNCHANGED <<latest_pcl, latest_range_image, metadata, xyzlut,
                   metadata_received, log_counter, published, ipc, locals,
                   counters, history>>

\* line 56: self.sensor_info = client.SensorInfo(metadata_str)
MetaSensorInfo ==
    /\ mpc = "sensor_info"
    /\ IF metadata.kind = "bad_info"
       THEN /\ mpc' = "idle"
            /\ UNCHANGED sensor_info
       ELSE /\ sensor_info' = SensorInfo(metadata.gen, metadata.shape, metadata.calib)
            /\ mpc' = "xyzlut"
    /\ UNCHANGED <<latest_pcl, latest_range_image, metadata, xyzlut,
                   metadata_received, log_counter, published, ipc, locals,
                   counters, history>>

\* line 57: self.xyzlut = client.XYZLut(self.sensor_info)
MetaXYZLut ==
    /\ mpc = "xyzlut"
    /\ IF metadata.kind = "bad_lut"
       THEN /\ mpc' = "idle"
            /\ UNCHANGED xyzlut
       ELSE /\ xyzlut' = XYZLut(sensor_info)
            /\ mpc' = "received"
    /\ UNCHANGED <<latest_pcl, latest_range_image, metadata, sensor_info,
                   metadata_received, log_counter, published, ipc, locals,
                   counters, history>>

\* line 58: self.metadata_received = True
MetaReceived ==
    /\ mpc = "received"
    /\ metadata_received' = TRUE
    /\ mpc' = "idle"
    /\ UNCHANGED <<latest_pcl, latest_range_image, metadata, sensor_info,
                   xyzlut, log_counter, published, ipc, locals, counters,
                   history>>

metadata_callback == MetaLoads \/ MetaSensorInfo \/ MetaXYZLut \/ MetaReceived

(***************************************************************************)
(* image_callback, lines 86-116, with the calls it makes.  One step per    *)
(* read of an attribute another callback writes; the statements between    *)
(* two such reads touch local variables only and belong to one step.       *)
(* The two reads of line 108 and the two of line 163 are one step each:    *)
(* those attributes go from None to a value and never back, so the test    *)
(* has the outcome it would have with both reads at the later moment.      *)
(***************************************************************************)
\* The callback returns: its local variables are gone.
EndCycle(how) ==
    /\ ipc' = "idle"
    /\ outcome' = how
    /\ frame_shape' = None
    /\ keypoints' = None
    /\ mask' = None
    /\ range_image' = None
    /\ pcl_msg' = None
    /\ roi_range_image' = None
    /\ valid_points' = None

\* An exception that no handler catches: the callback does not return.
FaultEscapes(how) ==
    /\ ipc' = "dead"
    /\ outcome' = how
    /\ faulted' = TRUE
    /\ UNCHANGED locals

\* An exception reaches the handler of line 114 (in image_callback) or of
\* line 192 (in extract_filtered_points): it is logged and the callback returns.
Fault(how) ==
    /\ EndCycle(how)
    /\ faulted' = TRUE

\* lines 88-99: the frame is converted and the model run; a message that
\* cannot be converted raises, as does the model or the indexing of line 94
\* ("bad_image"); a result without keypoints is passed over ("no_result");
\* a keypoint array without rows is skipped (line 97).  The model returns
\* one result per frame, so the loop of line 92 runs once.
ImageReceive ==
    /\ ipc = "idle"
    /\ MoreEvents
    /\ nPose' = nPose + 1
    /\ cyc' = [NoCycle EXCEPT !.after_fault = faulted]
    /\ \E msg \in PoseMsgs :
          CASE msg.kind = "bad_image" -> Fault("fault_image")
            [] msg.kind = "no_result" -> EndCycle("no_result") /\ UNCHANGED faulted
            [] msg.kind = "pose" /\ Len(msg.keypoints) = 0 ->
                  EndCycle("no_keypoints") /\ UNCHANGED faulted
            [] OTHER ->
                  /\ frame_shape' = msg.shape
                  /\ keypoints' = msg.keypoints
                  /\ ipc' = "get_mask"
                  /\ outcome' = "running"
                  /\ UNCHANGED <<mask, range_image, pcl_msg, roi_range_image,
                                 valid_points, faulted>>
    /\ UNCHANGED <<attrs, published, mpc, nPcl, nRange, nMeta, delivered>>

\* line 101: mask = self.get_hand_region_mask(keypoints, frame.shape[:2])
GetMask ==
    /\ ipc = "get_mask"
    /\ mask' = GetHandRegionMask(keypoints, frame_shape)
    /\ ipc' = "check_mask"
    /\ UNCHANGED <<attrs, published, frame_shape, keypoints, range_image,
                   pcl_msg, roi_range_image, valid_points, mpc, counters,
                   history>>

\* lines 102-106: `mask is None` skips the frame; mask.shape of a value
\* that is no array raises AttributeError.
CheckMask ==
    /\ ipc = "check_mask"
    /\ IF mask = None
       THEN EndCycle("no_mask") /\ UNCHANGED faulted
       ELSE IF ~IsMask(mask)
            THEN Fault("fault_image")
            ELSE /\ ipc' = "check_caches"
                 /\ UNCHANGED <<locals, outcome, faulted>>
    /\ UNCHANGED <<attrs, published, mpc, counters, cyc, delivered>>

\* line 108: self.latest_pcl is not None and self.latest_range_image is not None
CachesPresent(pcl, image) == pcl # None /\ image # None

CheckCaches ==
    /\ ipc = "check_caches"
    /\ IF CachesPresent(latest_pcl, latest_range_image)
       THEN /\ ipc' = "load_range"
            /\ cyc' = [cyc EXCEPT !.chk_range = latest_range_image,
                                  !.chk_pcl = latest_pcl]
            /\ UNCHANGED <<locals, outcome, faulted>>
       ELSE /\ EndCycle("no_data")
            /\ UNCHANGED <<cyc, faulted>>
    /\ UNCHANGED <<attrs, published, mpc, counters, delivered>>

\* Line 109 taking the cached range image out of its slot.
LoadRangeTake ==
    /\ ipc = "load_range"
    /\ range_image' = latest_range_image
    /\ latest_range_image' = None
    /\ cyc' = [cyc EXCEPT !.raw = delivered]
    /\ ipc' = "load_pcl"
    /\ UNCHANGED <<latest_pcl, calibration, log_counter, published, frame_shape,
                   keypoints, mask, pcl_msg, roi_range_image, valid_points,
                   mpc, counters, outcome, faulted, delivered>>

\* line 109, second argument: self.latest_range_image
LoadRange ==
    /\ ipc = "load_range"
    /\ range_image' = latest_range_image
    /\ cyc' = [cyc EXCEPT !.raw = delivered]
    /\ ipc' = "load_pcl"
    /\ UNCHANGED <<attrs, published, frame_shape, keypoints, mask, pcl_msg,
                   roi_range_image, valid_points, mpc, counters, outcome,
                   faulted, delivered>>

\* line 109, third argument: self.latest_pcl
LoadPcl ==
    /\ ipc = "load_pcl"
    /\ pcl_msg' = latest_pcl
    /\ ipc' = "check_geometry"
    /\ UNCHANGED <<attrs, published, frame_shape, keypoints, mask, range_image,
                   roi_range_image, valid_points, mpc, counters, history>>

\* Line 163 with `and` in the place of `or`.
GeometryNotReadyBoth(info, lut) == info = None /\ lut = None

\* Line 163 testing self.sensor_info alone.
GeometryNotReadyInfoOnly(info, lut) == info = None

\* line 163: not self.sensor_info or not self.xyzlut
GeometryNotReady(info, lut) == info = None \/ lut = None

\* lines 163-165
CheckGeometry ==
    /\ ipc = "check_geometry"
    /\ cyc' = [cyc EXCEPT !.ready = (sensor_info # None /\ xyzlut # None)]
    /\ IF GeometryNotReady(sensor_info, xyzlut)
       THEN /\ EndCycle("not_ready")
            /\ UNCHANGED faulted
       ELSE /\ ipc' = "destagger"
            /\ UNCHANGED <<locals, outcome, faulted>>
    /\ UNCHANGED <<attrs, published, mpc, counters, delivered>>

\* lines 169-173: destagger with self.sensor_info, then the mask is applied.
MaskedRange(info, image, m) ==
    LET destaggered_image == Destagger(info, image)
    IN  IF destaggered_image = Raise \/ ~IsMask(m) THEN Raise
        ELSE Where(m, destaggered_image)

DestaggerAndMask ==
    /\ ipc = "destagger"
    /\ cyc' = [cyc EXCEPT !.info = sensor_info]
    /\ LET roi == MaskedRange(sensor_info, range_image, mask)
       IN  IF roi = Raise
           THEN Fault("fault_extract")
           ELSE /\ roi_range_image' = roi
                /\ ipc' = "project"
                /\ UNCHANGED <<frame_shape, keypoints, mask, range_image,
                               pcl_msg, valid_points, outcome, faulted>>
    /\ UNCHANGED <<attrs, published, mpc, counters, delivered>>

\* lines 176-179: the lookup table self.xyzlut converts the masked image,
\* and the points with a not-a-number coordinate are removed.
Project(lut, roi) ==
    LET xyz_points == XYZLutCall(lut, roi)
    IN  ValidPoints(xyz_points)

ProjectStep ==
    /\ ipc = "project"
    /\ cyc' = [cyc EXCEPT !.lut = xyzlut]
    /\ IF XYZLutRaises(xyzlut, roi_range_image)
       THEN Fault("fault_extract")
       ELSE /\ valid_points' = Project(xyzlut, roi_range_image)
            /\ ipc' = "publish"
            /\ UNCHANGED <<frame_shape, keypoints, mask, range_image,
                           pcl_msg, roi_range_image, outcome, faulted>>
    /\ UNCHANGED <<attrs, published, mpc, counters, delivered>>

\* Line 187 taking the frame id of the point-cloud message as well.
CloudInInputFrame(pcl, points) ==
    IF pcl = None THEN Raise
    ELSE [stamp |-> pcl.header.stamp, frame_id |-> pcl.header.frame_id,
          points |-> points]

\* lines 187-188: the cloud with the stamp of pcl_msg and the fixed frame id.
Cloud(pcl, points) ==
    IF pcl = None THEN Raise
    ELSE [stamp |-> pcl.header.stamp, frame_id |-> "os_sensor",
          points |-> points]

\* lines 181-190
Publish ==
    /\ ipc = "publish"
    /\ LET pc_msg == Cloud(pcl_msg, valid_points)
       IN  IF pc_msg = Raise
           THEN Fault("fault_extract") /\ UNCHANGED published
           ELSE /\ published' = Append(published, pc_msg)
                /\ EndCycle("emitted")
                /\ UNCHANGED faulted
    /\ UNCHANGED <<attrs, mpc, counters, cyc, delivered>>

extract_filtered_points == CheckGeometry \/ DestaggerAndMask \/ ProjectStep \/ Publish

image_callback ==
    \/ ImageReceive
    \/ GetMask
    \/ CheckMask
    \/ CheckCaches
    \/ LoadRange
    \/ LoadPcl
    \/ extract_filtered_points

Next == store_pcl \/ range_image_callback \/ metadata_callback \/ image_callback

Spec == Init /\ [][Next]_vars

(***************************************************************************)
(* get_hand_region_mask on its own: image_callback stands at line 101 with *)
(* any keypoint array and any frame shape of the sets below.               *)
(***************************************************************************)
Coords == 0..(MaxCoord * CoordDen)

\* Confidences of shoulder, elbow and wrist, in tenths.
MaskConfidences ==
    {<<9, 9, 9>>, <<9, 4, 9>>, <<5, 9, 9>>, <<9, 9, 5>>, <<6, 6, 6>>}

\* The keypoint arrays with shoulder and elbow at any coordinates of the set.
MaskKeypoints(coords) ==
    {KeypointArray(n, <<sx, sy, conf[1]>>, <<ex, ey, conf[2]>>,
                   IF atElbow THEN <<ex, ey, conf[3]>> ELSE <<0, 0, conf[3]>>) :
        n \in {m \in SkeletonRows : m > WristIdx},
        sx \in coords, sy \in coords, ex \in coords, ey \in coords,
        atElbow \in BOOLEAN, conf \in MaskConfidences}
    \cup {KeypointArray(n, <<0, 0, 9>>, <<0, 0, 9>>, <<0, 0, 9>>) :
            n \in {m \in SkeletonRows : m <= WristIdx /\ m > 0}}

MaskShapes == {<<MaxCoord + 1, MaxCoord + 1>>, <<1, 2>>}

InitMask ==
    /\ latest_pcl = None
    /\ latest_range_image = None
    /\ sensor_info = None
    /\ metadata = None
    /\ xyzlut = None
    /\ metadata_received = FALSE
    /\ log_counter = 0
    /\ published = <<>>
    /\ ipc = "get_mask"
    /\ frame_shape \in MaskShapes
    /\ keypoints \in MaskKeypoints(Coords)
    /\ mask = None
    /\ range_image = None
    /\ pcl_msg = None
    /\ roi_range_image = None
    /\ valid_points = None
    /\ mpc = "idle"
    /\ nPose = 1
    /\ nPcl = 0
    /\ nRange = 0
    /\ nMeta = 0
    /\ outcome = "running"
    /\ cyc = NoCycle
    /\ faulted = FALSE
    /\ delivered = None

NextMask == GetMask \/ CheckMask \/ CheckCaches

SpecMask == InitMask /\ [][NextMask]_vars

(***************************************************************************)
(* The projection on its own: image_callback stands at line 169, in        *)
(* extract_filtered_points, with any mask, any cached range image and any  *)
(* calibration of one shape, each delivered once.                          *)
(***************************************************************************)
ProjectSamples == {Fin(RangeScale), Fin(2 * RangeScale), NaN, Inf(1)}

\* The scenario of the specification: 2 rows of 4 columns, no pixel shift,
\* every beam along (0, 0, 1).
ScenarioShape == <<2, 4>>
ScenarioMask == Array(ScenarioShape, "uint8", <<1, 0, 1, 0, 0, 0, 0, 0>>)
ScenarioRange ==
    Array(ScenarioShape, "float32",
          <<Fin(1), Fin(1), Fin(1), Fin(1), Fin(2), Fin(2), Fin(2), Fin(2)>>)

\* Mask, range image and calibration of up to n pixels, and the scenario.
ProjectInputs(n) ==
    {<<m, a, c>> \in
        ArraysOf(ShapesUpTo(n), "uint8", {0, 1})
        \X ArraysOf(ShapesUpTo(n), "float32", ProjectSamples)
        \X Calibs : m.shape = a.shape}
    \cup {<<ScenarioMask, ScenarioRange, "axis">>,
          <<Zeros(ScenarioShape), ScenarioRange, "axis">>}

InitProject ==
    \E in \in ProjectInputs(MaxPixels) :
        /\ latest_pcl = PclMsg(1)
        /\ latest_range_image = in[2]
        /\ sensor_info = SensorInfo(1, in[2].shape, in[3])
        /\ metadata = [gen |-> 1, kind |-> "ok", shape |-> in[2].shape,
                       calib |-> in[3]]
        /\ xyzlut = XYZLut(SensorInfo(1, in[2].shape, in[3]))
        /\ metadata_received = TRUE
        /\ log_counter = 1
        /\ published = <<>>
        /\ ipc = "destagger"
        /\ frame_shape = in[1].shape
        /\ keypoints = None
        /\ mask = in[1]
        /\ range_image = in[2]
        /\ pcl_msg = PclMsg(1)
        /\ roi_range_image = None
        /\ valid_points = None
        /\ mpc = "idle"
        /\ nPose = 1
        /\ nPcl = 1
        /\ nRange = 1
        /\ nMeta = 1
        /\ outcome = "running"
        /\ cyc = [chk_range |-> in[2], chk_pcl |-> PclMsg(1), ready |-> TRUE,
                  info |-> None, lut |-> None, after_fault |-> FALSE,
                  raw |-> None]
        /\ faulted = FALSE
        /\ delivered = None

NextProject == DestaggerAndMask \/ ProjectStep \/ Publish

SpecProject == InitProject /\ [][NextProject]_vars

(***************************************************************************)
(* Properties.                                                             *)
(***************************************************************************)
TrackedIdx == {ShoulderIdx, ElbowIdx, WristIdx}

\* C1: get_hand_region_mask returns None for every pose with one of the
\* confidences of keypoints 5, 7, 9 at most 0.5, and for every pose with
\* all three above 0.5 it returns a mask of the shape of the image.
C1_NoneOrMaskOfImageShape ==
    (ipc = "check_mask" /\ Len(keypoints) > WristIdx) =>
        IF \E i \in TrackedIdx : keypoints[i + 1][3] <= ConfThresholdTenths
        THEN mask = None
        ELSE IsMask(mask) /\ mask.shape = frame_shape

\* C2: a cloud is published in a pose cycle only if the mask was built, a
\* range image and a point cloud are cached, and calibration and lookup
\* table are loaded, and were loaded when the projection was entered.
C2_EmitsOnlyWithAllInputs ==
    [][published' # published =>
          /\ IsMask(mask)
          /\ latest_range_image # None /\ range_image # None
          /\ latest_pcl # None /\ pcl_msg # None
          /\ sensor_info # None /\ xyzlut # None
          /\ cyc.ready
          /\ Len(published') = Len(published) + 1]_vars

C2_Emitted == outcome = "emitted" /\ Len(published) = 1 /\ cyc.ready

\* C3: the calibration one cycle destaggers with and the lookup table it
\* projects with come from the same metadata delivery.
C3_SameDelivery ==
    (cyc.info # None /\ cyc.lut # None) => cyc.info.gen = cyc.lut.gen

\* C4: the range image and the point cloud passed to the projection are
\* the values whose presence line 108 tested.
C4_ConsistentSnapshot ==
    /\ range_image # None => range_image = cyc.chk_range
    /\ pcl_msg # None => pcl_msg = cyc.chk_pcl

FinitePoint(pt) == IsFinite(pt[1]) /\ IsFinite(pt[2]) /\ IsFinite(pt[3])

\* C5: every point of the projected set has three finite coordinates.
C5_PointsFinite ==
    ipc = "publish" =>
        \A i \in 1..Len(valid_points) : FinitePoint(valid_points[i])

ZeroMask(m) == IsMask(m) /\ \A p \in 1..Size(m.shape) : m.data[p] = 0

LastOf(seq) == seq[Len(seq)]

\* C6: with a mask that is zero at every pixel, every sample is not-a-number
\* before the conversion and the published point sequence is empty.
C6_ZeroMaskProjectsNothing ==
    /\ [](ZeroMask(mask) =>
            /\ roi_range_image # None =>
                  \A p \in 1..Size(roi_range_image.shape) :
                      IsNaN(roi_range_image.data[p])
            /\ ipc = "publish" => valid_points = <<>>)
    /\ [][(ZeroMask(mask) /\ published' # published) =>
             LastOf(published').points = <<>>]_vars

C6_ZeroMaskOverFiniteRange ==
    /\ ipc = "publish"
    /\ ZeroMask(mask)
    /\ valid_points = <<>>
    /\ \A p \in 1..Size(range_image.shape) : IsFinite(range_image.data[p])

\* The points of pixels p..n, in order, of the pixels with a nonzero mask
\* and a finite aligned range sample: the sample times the pixel's direction.
RECURSIVE ExpectedFrom(_, _, _, _)
ExpectedFrom(p, m, aligned, lut) ==
    IF p > Size(m.shape) THEN <<>>
    ELSE (IF m.data[p] # 0 /\ IsFinite(aligned.data[p])
          THEN <<(<<Fin(aligned.data[p].v * lut.dirs[p][1]),
                    Fin(aligned.data[p].v * lut.dirs[p][2]),
                    Fin(aligned.data[p].v * lut.dirs[p][3])>>)>>
          ELSE <<>>)
         \o ExpectedFrom(p + 1, m, aligned, lut)

\* C7: the projected points are, in row-major order, the products of range
\* sample and direction of exactly the pixels with a nonzero mask and a
\* valid range sample; in the scenario of 2 rows and 4 columns that is the
\* two points (0, 0, 1), and with a mask of ones over finite samples it is
\* one point per pixel.
C7_ExactRowMajorPoints ==
    (ipc = "publish" /\ mask.shape = range_image.shape) =>
        /\ valid_points =
              ExpectedFrom(1, mask, Destagger(cyc.info, range_image), cyc.lut)
        /\ (mask = ScenarioMask /\ range_image = ScenarioRange) =>
              valid_points = <<(<<Fin(0), Fin(0), Fin(1)>>),
                               (<<Fin(0), Fin(0), Fin(1)>>)>>
        /\ (/\ \A p \in 1..Size(mask.shape) : mask.data[p] # 0
            /\ \A p \in 1..Size(mask.shape) : IsFinite(range_image.data[p])) =>
              Len(valid_points) = Size(mask.shape)

LowConfidence(kps) ==
    /\ Len(kps) > WristIdx
    /\ \E i \in TrackedIdx : kps[i + 1][3] <= ConfThresholdTenths

Confident(kps) ==
    /\ Len(kps) > WristIdx
    /\ \A i \in TrackedIdx : kps[i + 1][3] > ConfThresholdTenths

\* C8: when mask building declines a low-confidence pose, image_callback
\* takes the `mask is None` path: the frame is skipped, no exception handler
\* runs and nothing is published.
C8_LowConfidenceIsSkippedNotRaised ==
    [][(ipc = "check_mask" /\ ipc' # ipc /\ LowConfidence(keypoints)) =>
          /\ outcome' = "no_mask"
          /\ faulted' = faulted
          /\ published' = published]_vars

Faults == {"fault_image", "fault_extract"}

\* A pose cycle ends in an exception handler.
PoseFaultStep ==
    /\ outcome' \in Faults
    /\ nPose' # nPose \/ ipc' # ipc

\* range_image_callback ends in its exception handler.
RangeFaultStep == nRange' # nRange /\ log_counter' = log_counter

\* A step of image_callback.
PoseStep == nPose' # nPose \/ ipc' # ipc

\* C9: a handler that raises publishes nothing, leaves every cached value
\* as it was and returns, so that image_callback takes the next frame; and
\* whatever raised before, a pose cycle passes every stage whose inputs are
\* valid: a confident pose gives a mask, delivered range image and point
\* cloud are found cached, loaded calibration is found ready, arrays of one
\* shape are destaggered, masked and projected, and the result is published.
C9_FaultsContained ==
    [][/\ (PoseFaultStep \/ RangeFaultStep) =>
             /\ published' = published
             /\ UNCHANGED attrs
       /\ PoseFaultStep => ipc' = "idle"
       /\ RangeFaultStep => ipc' = ipc
       /\ (PoseStep /\ ipc = "get_mask" /\ Confident(keypoints)) =>
             (IsMask(mask') /\ ipc' = "check_mask")
       /\ (PoseStep /\ ipc = "check_mask" /\ IsMask(mask)) =>
             ipc' = "check_caches"
       /\ (PoseStep /\ ipc = "check_caches" /\ nPcl > 0 /\ log_counter > 0) =>
             ipc' = "load_range"
       /\ (PoseStep /\ ipc = "load_range") =>
             (ipc' = "load_pcl" /\ range_image' # None)
       /\ (PoseStep /\ ipc = "load_pcl") =>
             (ipc' = "check_geometry" /\ pcl_msg' # None)
       /\ (PoseStep /\ ipc = "check_geometry" /\ metadata_received) =>
             ipc' = "destagger"
       /\ (PoseStep /\ ipc = "destagger" /\ range_image.shape = sensor_info.shape
              /\ mask.shape = range_image.shape) =>
             ipc' = "project"
       /\ (PoseStep /\ ipc = "project" /\ roi_range_image.shape = xyzlut.shape) =>
             ipc' = "publish"
       /\ (PoseStep /\ ipc = "publish") =>
             (outcome' = "emitted" /\ Len(published') = Len(published) + 1)]_vars

C9_EmittedAfterFault == outcome = "emitted" /\ cyc.after_fault

\* C10: store_pcl changes only the cached point cloud, range_image_callback
\* only the cached range image and its log counter, metadata_callback only
\* the calibration state, and image_callback none of them, also in a step
\* that ends in an exception handler.
C10_HandlersWriteOwnSlot ==
    [][/\ nPcl' # nPcl =>
             UNCHANGED <<latest_range_image, log_counter, calibration>>
       /\ nRange' # nRange => UNCHANGED <<latest_pcl, calibration>>
       /\ (nMeta' # nMeta \/ mpc' # mpc) =>
             UNCHANGED <<latest_pcl, latest_range_image, log_counter>>
       /\ PoseStep => UNCHANGED attrs]_vars

C10_EveryHandlerActed ==
    /\ latest_pcl # None
    /\ latest_range_image # None
    /\ metadata_received
    /\ nPose > 0
    /\ faulted

\* C11: while no metadata delivery has succeeded (also after deliveries
\* that failed at line 54, 56 or 57) nothing is published and every pose
\* cycle that reaches line 163 is skipped there as not ready, without an
\* exception; the delivery that completes line 57 leaves the pipeline
\* ready, and from then on line 163 lets the cycle through.
C11_NotReadyUntilCalibrated ==
    [][/\ xyzlut = None => published' = published
       /\ (PoseStep /\ ipc = "check_geometry" /\ xyzlut = None) =>
             (outcome' = "not_ready" /\ ipc' = "idle" /\ faulted' = faulted)
       /\ (mpc = "xyzlut" /\ mpc' = "received") =>
             ~GeometryNotReady(sensor_info', xyzlut')
       /\ (PoseStep /\ ipc = "check_geometry" /\ xyzlut # None) =>
             ipc' = "destagger"]_vars

\* A pose cycle was skipped as not ready after a delivery that failed in
\* client.SensorInfo or client.XYZLut, with no calibration loaded before.
C11_SkippedAfterFailedDelivery ==
    /\ outcome = "not_ready"
    /\ xyzlut = None
    /\ mpc = "idle"
    /\ metadata # None
    /\ metadata.kind # "ok"

\* C12: a cloud is published only by a cycle whose mask, range image and
\* lookup table have one shape; a cycle that reaches line 176 with a mask
\* and a range image of different shapes, or with a lookup table of another
\* shape than the masked image, ends there in the exception handler of
\* line 192 and publishes nothing.
C12_ShapeMismatchSkipsFrame ==
    [][/\ published' # published =>
             /\ mask.shape = range_image.shape
             /\ range_image.shape = cyc.lut.shape
       /\ (/\ PoseStep
           /\ ipc = "project"
           /\ \/ mask.shape # range_image.shape
              \/ roi_range_image.shape # xyzlut.shape) =>
             (outcome' = "fault_extract" /\ ipc' = "idle"
              /\ published' = published)]_vars

\* Every pixel of the mask within the radius of pixel (x, y) is set.
DiskStamped(m, x, y, radius) ==
    \A p \in 1..Size(m.shape) :
        InDisk(RowOf(p, Cols(m)), ColOf(p, Cols(m)), x, y, radius) =>
            m.data[p] # 0

\* C13: for a confident pose with shoulder and elbow at the same position,
\* get_hand_region_mask raises nothing and returns a mask, and the mask
\* holds the disk around the pixel of that position.
C13_DegenerateSegmentStampsDisk ==
    (/\ ipc = "check_mask"
     /\ Confident(keypoints)
     /\ keypoints[ShoulderIdx + 1][1] = keypoints[ElbowIdx + 1][1]
     /\ keypoints[ShoulderIdx + 1][2] = keypoints[ElbowIdx + 1][2]) =>
        /\ IsMask(mask)
        /\ DiskStamped(mask, TruncDiv(keypoints[ElbowIdx + 1][1], CoordDen),
                       TruncDiv(keypoints[ElbowIdx + 1][2], CoordDen), Radius)

\* C14: line 109 passes on the point cloud that is cached at that moment,
\* the last one delivered; the cloud a cycle publishes has the stamp of
\* that message and the frame id "os_sensor", and its points are the
\* projection of the masked range image: neither the frame id nor the data
\* of the point-cloud message appear in it.
C14_BorrowedStampFixedFrame ==
    [][/\ (PoseStep /\ ipc = "load_pcl") =>
             /\ pcl_msg' = latest_pcl
             /\ pcl_msg'.header.stamp = nPcl
       /\ published' # published =>
             /\ published' =
                   Append(published,
                          [stamp |-> pcl_msg.header.stamp,
                           frame_id |-> "os_sensor",
                           points |-> Project(cyc.lut, roi_range_image)])
             /\ pcl_msg.header.stamp >= cyc.chk_pcl.header.stamp
             /\ pcl_msg.header.stamp <= nPcl]_vars

\* A cloud was published with the stamp of the second point-cloud message.
C14_EmittedWithSecondStamp ==
    /\ Len(published) > 0
    /\ LastOf(published).stamp = 2
    /\ LastOf(published).frame_id = "os_sensor"
    /\ nPcl = 2

\* C15: a step of store_pcl, range_image_callback or metadata_callback
\* publishes nothing and starts no pose cycle; a cloud is published only by
\* the last step of a pose cycle, one cloud, so that there are at most as
\* many clouds as pose events; when image_callback has returned nothing of
\* the pose is kept; and line 109 passes on the range image and the point
\* cloud delivered last, whatever their stamps.
C15_OnlyPoseEmitsNothingBuffered ==
    /\ [](/\ Len(published) <= nPose
          /\ ipc = "idle" =>
                /\ frame_shape = None /\ keypoints = None /\ mask = None
                /\ range_image = None /\ pcl_msg = None
                /\ roi_range_image = None /\ valid_points = None)
    /\ [][/\ (nPcl' # nPcl \/ nRange' # nRange \/ nMeta' # nMeta
                \/ mpc' # mpc) =>
                (published' = published /\ ipc' = ipc)
          /\ published' # published =>
                /\ ipc = "publish" /\ ipc' = "idle"
                /\ Len(published') = Len(published) + 1
          /\ (ipc = "idle" /\ ipc' # "idle") => nPose' = nPose + 1
          /\ (PoseStep /\ ipc = "load_range") =>
                (range_image' = latest_range_image /\ cyc'.raw = delivered)
          /\ (PoseStep /\ ipc = "load_pcl") =>
                pcl_msg'.header.stamp = nPcl]_vars

\* Two pose events and one delivery on each other topic gave one cloud,
\* published by the second pose: the first pose, whose cycle published
\* nothing, was never taken up again.
C15_SecondPoseEmittedAlone ==
    /\ outcome = "emitted"
    /\ nPose = 2
    /\ Len(published) = 1
    /\ nPcl = 1
    /\ nRange = 1
    /\ nMeta = 1

\* The image with every sample multiplied by the scale factor, computed in
\* the numbers (not in the width of the array's element type).
TimesScale(image) ==
    Array(image.shape, image.dtype,
          [p \in 1..Size(image.shape) |-> FMul(image.data[p], Fin(RangeScale))])

\* C16: in every pose cycle, the range image passed to
\* extract_filtered_points holds 4 times the samples of the delivered image
\* it was made from, and the masked image that is projected is the mask
\* applied to the destaggered 4-fold image: the factor is applied once,
\* whatever the number of cycles that use the cached image.
C16_ScaledExactlyOnce ==
    /\ (range_image # None /\ cyc.raw # None) =>
          range_image = TimesScale(cyc.raw)
    /\ (roi_range_image # None /\ cyc.raw # None) =>
          roi_range_image =
              Where(mask, Destagger(cyc.info, TimesScale(cyc.raw)))

Dist(a, b) == IF a >= b THEN a - b ELSE b - a

\* The samples of the segment from keypoint a to keypoint b: the number of
\* steps is the whole part of the length, and two consecutive centres are at
\* most one pixel apart in each axis.
NoGaps(a, b) ==
    LET n == LineLength(a[1], a[2], b[1], b[2])
        d2 == (b[1] - a[1]) * (b[1] - a[1]) + (b[2] - a[2]) * (b[2] - a[2])
    IN  /\ (n * CoordDen) * (n * CoordDen) <= d2
        /\ d2 < ((n + 1) * CoordDen) * ((n + 1) * CoordDen)
        /\ \A i \in 0..(n - 2) :
              LET c0 == Centre(a[1], a[2], b[1], b[2], i)
                  c1 == Centre(a[1], a[2], b[1], b[2], i + 1)
              IN  Dist(c0[1], c1[1]) <= 1 /\ Dist(c0[2], c1[2]) <= 1

\* C17: for the two segments of every confident pose (shoulder to elbow,
\* elbow to wrist; endpoints at fractions of a pixel), draw_cylinder takes
\* as many steps as the whole part of the segment's length, and consecutive
\* centres it stamps differ by at most one pixel in each axis.
C17_NoGapsBetweenCentres ==
    (ipc = "check_mask" /\ Confident(keypoints)) =>
        /\ NoGaps(keypoints[ShoulderIdx + 1], keypoints[ElbowIdx + 1])
        /\ NoGaps(keypoints[ElbowIdx + 1], keypoints[WristIdx + 1])

\* C18: no step sets latest_range_image, latest_pcl, sensor_info or xyzlut
\* back to None once it holds a value, also when a handler raises; a pose
\* cycle past line 109 holds a range image and a point cloud, and past
\* line 163 calibration and lookup table are set; and metadata_received is
\* true only with sensor_info and xyzlut both set.
C18_CachesNeverReset ==
    /\ [](/\ metadata_received => (sensor_info # None /\ xyzlut # None)
          /\ ipc \in {"check_geometry", "destagger", "project", "publish"} =>
                (range_image # None /\ pcl_msg # None)
          /\ ipc \in {"destagger", "project", "publish"} =>
                (sensor_info # None /\ xyzlut # None))
    /\ [][/\ latest_range_image # None => latest_range_image' # None
          /\ latest_pcl # None => latest_pcl' # None
          /\ sensor_info # None => sensor_info' # None
          /\ xyzlut # None => xyzlut' # None]_vars

\* Every cache is set, and after that a metadata delivery has failed and
\* another handler has raised.
C18_AllSetAfterFailures ==
    /\ metadata_received
    /\ mpc = "idle"
    /\ metadata.kind # "ok"
    /\ latest_pcl # None
    /\ latest_range_image # None
    /\ faulted

\* C19: the cached range image holds, for every sample of the image
\* delivered last, 4 times that sample as a number, also for samples of
\* 16 bits: nothing is reduced modulo 2^16.
C19_ScalingDoesNotOverflow ==
    delivered # None => latest_range_image = TimesScale(delivered)

=============================================================================
